---- MODULE Spec2Model ----
(***************************************************************************)
(* A model of scripts/generate_index.py: the markdown metadata extractor   *)
(* (parse_markdown), the folder scanner (get_subfolders), the page         *)
(* renderer (generate_html) and the pipeline (main).                       *)
(*                                                                         *)
(* Text is a sequence of one-character strings, so that splitting,         *)
(* trimming and regular-expression matching are computed character by      *)
(* character as the Python code computes them.                             *)
(***************************************************************************)
EXTENDS Integers, Sequences, FiniteSets, TLC

VARIABLES
    pc,         \* position of the program: see each specification
    content,    \* SpecParse: the text of the markdown file being parsed
    fallback,   \* SpecParse: md_path.parent.name
    info,       \* SpecParse: the dict parse_markdown returned
    entries,    \* the list of entry dicts (get_subfolders' result, generate_html's input)
    html,       \* the page generate_html returned
    rootKind,   \* what the path site/ is: "missing", "file" or "dir"
    children,   \* the children of site/, by name
    items,      \* get_subfolders: what is left of sorted(SITE_DIR.iterdir())
    reads,      \* the summary files read_text was called on in this run, in order
    writes,     \* how many times this run wrote site/index.html
    runs,       \* how many times main was started
    before,     \* site/index.html as it was when this run started
    prev        \* how the run before this one ended, with its entries and page

vars == <<pc, content, fallback, info, entries, html,
          rootKind, children, items, reads, writes, runs, before, prev>>

(***************************************************************************)
(* Bounds of the model.                                                    *)
(***************************************************************************)
MaxLen == 6
MaxRuns == 2
MaxEntries == 2

(***************************************************************************)
(* Characters and strings.                                                 *)
(***************************************************************************)
\* The characters markdown texts are drawn from: the heading mark, a blank,
\* a line break and a letter.
Alphabet == {"#", " ", "\n", "a"}

\* str.isspace() / the regex class \s, on the characters of the model.
IsSpace(c) == c \in {" ", "\n", "\t", "\r"}

RECURSIVE LStrip(_)
\* The leading half of str.strip().
LStrip(s) ==
    IF s # <<>> /\ IsSpace(Head(s)) THEN LStrip(Tail(s)) ELSE s

RECURSIVE RStrip(_)
\* The trailing half of str.strip().
RStrip(s) ==
    IF s # <<>> /\ IsSpace(s[Len(s)]) THEN RStrip(SubSeq(s, 1, Len(s) - 1)) ELSE s

\* str.strip()
Strip(s) == RStrip(LStrip(s))

RECURSIVE SplitFrom(_, _, _)
\* content.split("\n"), scanning from index i with the current line in cur.
SplitFrom(s, i, cur) ==
    IF i > Len(s) THEN <<cur>>
    ELSE IF s[i] = "\n" THEN <<cur>> \o SplitFrom(s, i + 1, <<>>)
    ELSE SplitFrom(s, i + 1, Append(cur, s[i]))

\* content.split("\n")
Split(s) == SplitFrom(s, 1, <<>>)

RECURSIVE Join(_)
\* " ".join(description_lines)
Join(ls) ==
    IF ls = <<>> THEN <<>>
    ELSE IF Len(ls) = 1 THEN ls[1]
    ELSE ls[1] \o <<" ">> \o Join(Tail(ls))

\* stripped.startswith("#")
StartsWithHash(s) == s # <<>> /\ s[1] = "#"

(***************************************************************************)
(* parse_markdown: the title, re.search(r"^#\s+(.+)$", content, MULTILINE) *)
(***************************************************************************)
NoMatch == [start |-> 0, len |-> 0]

\* ^ under re.MULTILINE: the start of the text or just after a line break.
AtLineStart(s, p) == p = 1 \/ s[p - 1] = "\n"

RECURSIVE WsRun(_, _)
\* How many characters \s+ takes greedily from index p.
WsRun(s, p) ==
    IF p <= Len(s) /\ IsSpace(s[p]) THEN 1 + WsRun(s, p + 1) ELSE 0

RECURSIVE DotRun(_, _)
\* How many characters .+ takes greedily from index p: "." is any
\* character but a line break, and "$" then holds where the run ends.
DotRun(s, p) ==
    IF p <= Len(s) /\ s[p] # "\n" THEN 1 + DotRun(s, p + 1) ELSE 0

RECURSIVE TryWs(_, _, _)
\* \s+ backtracking: with k characters of white space taken after the "#"
\* at p, try (.+)$; on failure give one character back.
TryWs(s, p, k) ==
    IF k = 0 THEN NoMatch
    ELSE IF DotRun(s, p + 1 + k) >= 1
         THEN [start |-> p + 1 + k, len |-> DotRun(s, p + 1 + k)]
         ELSE TryWs(s, p, k - 1)

RECURSIVE HashRun(_, _)
\* How many "#" characters stand from index p on.
HashRun(s, p) ==
    IF p <= Len(s) /\ s[p] = "#" THEN 1 + HashRun(s, p + 1) ELSE 0

\* The pattern with "#+" for "#": any heading level matches.
HashRunMatchAt(s, p) ==
    IF AtLineStart(s, p) /\ HashRun(s, p) >= 1
    THEN TryWs(s, p + HashRun(s, p) - 1, WsRun(s, p + HashRun(s, p)))
    ELSE NoMatch

\* One attempt of the pattern at index p: "^", one "#", then \s+(.+)$.
MatchAt(s, p) ==
    IF AtLineStart(s, p) /\ s[p] = "#"
    THEN TryWs(s, p, WsRun(s, p + 1))
    ELSE NoMatch

RECURSIVE Search(_, _)
\* re.search: the first index, from p on, at which the pattern matches.
Search(s, p) ==
    IF p > Len(s) THEN NoMatch
    ELSE IF MatchAt(s, p) # NoMatch THEN MatchAt(s, p)
    ELSE Search(s, p + 1)

\* title_match.group(1).strip() if title_match else md_path.parent.name
Title(s, parent) ==
    LET title_match == Search(s, 1)
    IN  IF title_match # NoMatch
        THEN Strip(SubSeq(s, title_match.start, title_match.start + title_match.len - 1))
        ELSE parent

(***************************************************************************)
(* parse_markdown: the description, the loop over the lines                *)
(***************************************************************************)
RECURSIVE RestartLoop(_, _, _, _)
\* The loop with a heading ending it only once text was collected: a later
\* heading met with an empty buffer restarts the capture.
RestartLoop(lines, i, in_description, description_lines) ==
    IF i > Len(lines) THEN description_lines
    ELSE LET stripped == Strip(lines[i])
         IN  IF StartsWithHash(stripped)
             THEN IF in_description /\ description_lines # <<>>
                  THEN description_lines
                  ELSE RestartLoop(lines, i + 1, TRUE, description_lines)
             ELSE IF in_description /\ stripped # <<>>
             THEN RestartLoop(lines, i + 1, in_description,
                              Append(description_lines, stripped))
             ELSE IF in_description /\ stripped = <<>> /\ description_lines # <<>>
             THEN description_lines
             ELSE RestartLoop(lines, i + 1, in_description, description_lines)

RECURSIVE NoBlankStopLoop(_, _, _, _)
\* The loop without its last branch: a blank line does not end the paragraph.
NoBlankStopLoop(lines, i, in_description, description_lines) ==
    IF i > Len(lines) THEN description_lines
    ELSE LET stripped == Strip(lines[i])
         IN  IF StartsWithHash(stripped)
             THEN IF in_description
                  THEN description_lines
                  ELSE NoBlankStopLoop(lines, i + 1, TRUE, description_lines)
             ELSE IF in_description /\ stripped # <<>>
             THEN NoBlankStopLoop(lines, i + 1, in_description,
                                  Append(description_lines, stripped))
             ELSE NoBlankStopLoop(lines, i + 1, in_description, description_lines)

RECURSIVE DescLoop(_, _, _, _)
\* for line in lines: ... from line i on, with the loop's two variables.
DescLoop(lines, i, in_description, description_lines) ==
    IF i > Len(lines) THEN description_lines
    ELSE LET stripped == Strip(lines[i])
         IN  IF StartsWithHash(stripped)
             THEN IF in_description
                  THEN description_lines                                   \* break
                  ELSE DescLoop(lines, i + 1, TRUE, description_lines)     \* continue
             ELSE IF in_description /\ stripped # <<>>
             THEN DescLoop(lines, i + 1, in_description,
                           Append(description_lines, stripped))
             ELSE IF in_description /\ stripped = <<>> /\ description_lines # <<>>
             THEN description_lines                                        \* break
             ELSE DescLoop(lines, i + 1, in_description, description_lines)

\* " ".join(description_lines) if description_lines else ""
Description(s) == Join(DescLoop(Split(s), 1, FALSE, <<>>))

\* parse_markdown, given the decoded text of md_path and md_path.parent.name
parse_markdown(s, parent) ==
    [title |-> Title(s, parent), description |-> Description(s)]

(***************************************************************************)
(* The file system under site/                                             *)
(***************************************************************************)
\* Names of children of site/: ".h", "a", "ab", "b" and "index.html".
HiddenName == <<".", "h">>
NameA == <<"a">>
NameAB == <<"a", "b">>
NameB == <<"b">>
IndexHtml == <<"i", "n", "d", "e", "x", ".", "h", "t", "m", "l">>
Names == {HiddenName, NameA, NameAB, NameB, IndexHtml}

\* The candidate list with its first two names exchanged.
CandidatesSwapped == <<"description.md", "README.md", "index.md">>

\* ["README.md", "description.md", "index.md"]
Candidates == <<"README.md", "description.md", "index.md">>

\* A file of a subfolder: absent, a text that decodes, or one read_text
\* raises on (bytes that are not UTF-8, or a directory of that name).
NoFile == [st |-> "absent", text |-> <<>>]
TextFile(t) == [st |-> "text", text |-> t]
Unreadable == [st |-> "unreadable", text |-> <<>>]

\* What each summary file holds when it is a text:
\* "# a\n\na a\n\na" (a title and two paragraphs), "#  " (a heading of
\* blanks) and "a" (no heading).
SummaryText(name) ==
    CASE name = "README.md" ->
            <<"#", " ", "a", "\n", "\n", "a", " ", "a", "\n", "\n", "a">>
      [] name = "description.md" -> <<"#", " ", " ">>
      [] name = "index.md" -> <<"a">>

NoFiles == [c \in {"README.md", "description.md", "index.md"} |-> NoFile]

\* Every content of a subfolder, as far as get_subfolders looks at it.
FolderContents ==
    {[c \in {"README.md", "description.md", "index.md"} |->
        IF st[c] = "text" THEN TextFile(SummaryText(c))
        ELSE IF st[c] = "unreadable" THEN Unreadable ELSE NoFile] :
     st \in [{"README.md", "description.md", "index.md"} ->
                {"absent", "text", "unreadable"}]}

\* A child of site/: absent, a file with its data, or a directory with
\* its files.
Absent == [kind |-> "absent", data |-> <<>>, files |-> NoFiles]
File(d) == [kind |-> "file", data |-> d, files |-> NoFiles]
Dir(f) == [kind |-> "dir", data |-> <<>>, files |-> f]

NoChildren == [n \in Names |-> Absent]

\* A page left by something else than this program.
StalePage == <<[kind |-> "lit", text |-> <<"stale">>]>>

NoInfo == [title |-> <<>>, description |-> <<>>]

NoRun == [status |-> "none", entries |-> <<>>, page |-> <<>>]

fsVars == <<rootKind, children, items, reads, writes, runs, before, prev>>

\* ord(c), for the characters of the names.
Ord(c) ==
    CASE c = "." -> 46
      [] c = "a" -> 97
      [] c = "b" -> 98
      [] c = "d" -> 100
      [] c = "e" -> 101
      [] c = "h" -> 104
      [] c = "i" -> 105
      [] c = "l" -> 108
      [] c = "m" -> 109
      [] c = "n" -> 110
      [] c = "t" -> 116
      [] c = "x" -> 120

RECURSIVE LexLess(_, _)
\* s < t as Python compares two strings: by code point, a proper prefix first.
LexLess(s, t) ==
    IF t = <<>> THEN FALSE
    ELSE IF s = <<>> THEN TRUE
    ELSE IF Ord(s[1]) # Ord(t[1]) THEN Ord(s[1]) < Ord(t[1])
    ELSE LexLess(Tail(s), Tail(t))

RECURSIVE Descending(_)
\* The names of S in some order iterdir() may give: here, descending.
Descending(S) ==
    IF S = {} THEN <<>>
    ELSE LET m == CHOOSE x \in S : \A y \in S \ {x} : LexLess(y, x)
         IN  <<m>> \o Descending(S \ {m})

RECURSIVE Sorted(_)
\* sorted(...) of a set of paths in one directory: ascending by name.
Sorted(S) ==
    IF S = {} THEN <<>>
    ELSE LET m == CHOOSE x \in S : \A y \in S \ {x} : LexLess(x, y)
         IN  <<m>> \o Sorted(S \ {m})

\* SITE_DIR.iterdir(): the names of the children there are.
Iterdir == {n \in Names : children[n].kind # "absent"}

\* item.is_dir() taken to hold of every child.
IsDirAlways(n) == TRUE

\* item.is_dir()
IsDir(n) == children[n].kind = "dir"

\* item.name.startswith(".")
IsHidden(n) == n[1] = "."

RECURSIVE FirstExisting(_, _, _)
\* for md_name in [...]: if candidate.exists(): md_file = candidate; break
\* from the i-th name of the list on; "" stands for md_file = None.
FirstExisting(n, names, i) ==
    IF i > Len(names) THEN ""
    ELSE IF children[n].files[names[i]].st # "absent" THEN names[i]
    ELSE FirstExisting(n, names, i + 1)

\* md_file, once the inner loop of get_subfolders is over
MdFile(n) == FirstExisting(n, Candidates, 1)

(***************************************************************************)
(* generate_html                                                           *)
(***************************************************************************)
\* The page is the sequence of the pieces the f-strings are made of: the
\* literal pieces of the template, and the values of the entries' fields,
\* which are put in as they are.
Lit(t) == [kind |-> "lit", text |-> <<t>>]
Val(v) == [kind |-> "val", text |-> v]

LiEntry == Lit("<li class=\"entry\">")
AOpen == Lit("<a href=\"")
HrefEnd == Lit("/index.html\">")
H2Open == Lit("<h2>")
H2Close == Lit("</h2>")
POpen == Lit("<p class=\"description\">")
PClose == Lit("</p>")
ItemEnd == Lit("\n            </a>\n        </li>\n")
Placeholder == Lit("<li class=\"empty\">No content yet.</li>")
\* The template up to {entries_html}: the head with its style sheet, and
\* the start of the body.
PageHead == Lit("<!DOCTYPE html> ... <h1>Published Content</h1>\n    <ul>\n")
PageTail == Lit("\n    </ul>\n</body>\n</html>\n")

\* desc_html = f'<p class="description">...</p>' if entry["description"] else ""
DescHtml(entry) ==
    IF entry.description # <<>>
    THEN <<POpen, Val(entry.description), PClose>>
    ELSE <<>>

\* What one turn of the loop adds to entries_html.
EntryHtml(entry) ==
    <<Lit("\n        "), LiEntry, Lit("\n            "),
      AOpen, Val(entry.folder), HrefEnd, Lit("\n                "),
      H2Open, Val(entry.title), H2Close, Lit("\n                ")>>
    \o DescHtml(entry)
    \o <<ItemEnd>>

RECURSIVE EntriesHtml(_, _, _)
\* for entry in entries: entries_html += ... from the i-th entry on.
EntriesHtml(es, i, entries_html) ==
    IF i > Len(es) THEN entries_html
    ELSE EntriesHtml(es, i + 1, entries_html \o EntryHtml(es[i]))

\* The body of the list with the placeholder appended after the items
\* instead of replacing an empty list.
ListBodyAlwaysPlaceholder(es) == EntriesHtml(es, 1, <<>>) \o <<Placeholder>>

\* entries_html after the loop and "if not entries: entries_html = ...".
ListBody(es) ==
    IF es = <<>> THEN <<Placeholder>> ELSE EntriesHtml(es, 1, <<>>)

generate_html(es) == <<PageHead>> \o ListBody(es) \o <<PageTail>>

(***************************************************************************)
(* main, step by step: get_subfolders, generate_html, write_text           *)
(***************************************************************************)
\* main() starts and calls get_subfolders(): entries = [], the test of
\* SITE_DIR.exists(), and sorted(SITE_DIR.iterdir()), which raises
\* NotADirectoryError when site is a file.
Start ==
    /\ pc = "idle"
    /\ runs' = runs + 1
    /\ before' = children[IndexHtml]
    /\ entries' = <<>>
    /\ html' = <<>>
    /\ reads' = <<>>
    /\ writes' = 0
    /\ IF rootKind = "missing" THEN pc' = "render" /\ items' = <<>>
       ELSE IF rootKind = "file" THEN pc' = "error" /\ items' = <<>>
       ELSE pc' = "scan" /\ items' = Sorted(Iterdir)
    /\ UNCHANGED <<content, fallback, info, rootKind, children, prev>>

\* One turn of the loop of get_subfolders with an unreadable summary file
\* skipped instead of raising.
ScanItemSwallowing ==
    /\ pc = "scan"
    /\ items # <<>>
    /\ LET item == Head(items)
           md_file == MdFile(item)
       IN  /\ items' = Tail(items)
           /\ pc' = "scan"
           /\ IF ~IsDir(item) \/ IsHidden(item)
              THEN UNCHANGED <<entries, reads>>
              ELSE IF md_file = ""
              THEN /\ entries' = Append(entries,
                        [title |-> item, description |-> <<>>, folder |-> item])
                   /\ UNCHANGED reads
              ELSE /\ reads' = Append(reads, <<item, md_file>>)
                   /\ IF children[item].files[md_file].st = "unreadable"
                      THEN UNCHANGED entries
                      ELSE LET i == parse_markdown(children[item].files[md_file].text, item)
                           IN  entries' = Append(entries,
                                  [title |-> i.title, description |-> i.description,
                                   folder |-> item])
    /\ UNCHANGED <<content, fallback, info, html, rootKind, children,
                   writes, runs, before, prev>>

\* One turn of the loop of get_subfolders, on the next item: the two
\* tests that skip it, the search for its summary file, parse_markdown
\* (read_text raises on a file that does not decode) and the new entry.
ScanItem ==
    /\ pc = "scan"
    /\ items # <<>>
    /\ LET item == Head(items)
           md_file == MdFile(item)
       IN  /\ items' = Tail(items)
           /\ IF ~IsDir(item) \/ IsHidden(item)
              THEN pc' = "scan" /\ UNCHANGED <<entries, reads>>
              ELSE IF md_file = ""
              THEN /\ pc' = "scan"
                   /\ entries' = Append(entries,
                        [title |-> item, description |-> <<>>, folder |-> item])
                   /\ UNCHANGED reads
              ELSE /\ reads' = Append(reads, <<item, md_file>>)
                   /\ IF children[item].files[md_file].st = "unreadable"
                      THEN pc' = "error" /\ UNCHANGED entries
                      ELSE LET i == parse_markdown(children[item].files[md_file].text, item)
                           IN  /\ pc' = "scan"
                               /\ entries' = Append(entries,
                                     [title |-> i.title, description |-> i.description,
                                      folder |-> item])
    /\ UNCHANGED <<content, fallback, info, html, rootKind, children,
                   writes, runs, before, prev>>

\* The loop is over: get_subfolders returns entries.
ScanReturn ==
    /\ pc = "scan"
    /\ items = <<>>
    /\ pc' = "render"
    /\ UNCHANGED <<content, fallback, info, entries, html>>
    /\ UNCHANGED fsVars

\* html = generate_html(entries)
Render ==
    /\ pc = "render"
    /\ html' = generate_html(entries)
    /\ pc' = "write"
    /\ UNCHANGED <<content, fallback, info, entries>>
    /\ UNCHANGED fsVars

\* output_path.write_text(html): open(..., "w") raises when site is no
\* directory or site/index.html is one; else the file holds html.
Write ==
    /\ pc = "write"
    /\ IF rootKind # "dir" \/ children[IndexHtml].kind = "dir"
       THEN pc' = "error" /\ UNCHANGED <<children, writes>>
       ELSE /\ children' = [children EXCEPT ![IndexHtml] = File(html)]
            /\ writes' = writes + 1
            /\ pc' = "done"
    /\ UNCHANGED <<content, fallback, info, entries, html,
                   rootKind, items, reads, runs, before, prev>>

\* The process has ended; the program is run again on the same tree.
Rerun ==
    /\ pc \in {"done", "error"}
    /\ runs < MaxRuns
    /\ prev' = [status |-> pc, entries |-> entries, page |-> html]
    /\ pc' = "idle"
    /\ UNCHANGED <<content, fallback, info, entries, html,
                   rootKind, children, items, reads, writes, runs, before>>

\* The trees the program is started on: no site/, a file named site, or a
\* directory site/ with any of these children.
Init ==
    /\ pc = "idle"
    /\ content = <<>>
    /\ fallback = <<>>
    /\ info = NoInfo
    /\ entries = <<>>
    /\ html = <<>>
    /\ items = <<>>
    /\ reads = <<>>
    /\ writes = 0
    /\ runs = 0
    /\ before = Absent
    /\ prev = NoRun
    /\ rootKind \in {"missing", "file", "dir"}
    /\ IF rootKind # "dir" THEN children = NoChildren
       ELSE \E h \in {Absent, Dir([NoFiles EXCEPT !["README.md"] = Unreadable]),
                      Dir([NoFiles EXCEPT !["README.md"] = TextFile(SummaryText("README.md"))])},
               a \in {Absent, File(<<>>)} \cup {Dir(f) : f \in FolderContents},
               ab \in {Absent, File(<<>>), Dir(NoFiles)},
               b \in {Absent, File(<<>>)} \cup {Dir(f) : f \in FolderContents},
               x \in {Absent, File(StalePage), Dir(NoFiles)} :
            children = [n \in Names |->
                          IF n = HiddenName THEN h
                          ELSE IF n = NameA THEN a
                          ELSE IF n = NameAB THEN ab
                          ELSE IF n = NameB THEN b
                          ELSE x]

Next == Start \/ ScanItem \/ ScanReturn \/ Render \/ Write \/ Rerun

Spec == Init /\ [][Next]_vars

(***************************************************************************)
(* SpecParse: parse_markdown applied to every text of a bounded set.       *)
(***************************************************************************)
\* "# T\n\nLine one.\nLine two.\n\nIgnored."
ExampleDoc ==
    <<"#", " ", "T", "\n", "\n",
      "L", "i", "n", "e", " ", "o", "n", "e", ".", "\n",
      "L", "i", "n", "e", " ", "t", "w", "o", ".", "\n", "\n",
      "I", "g", "n", "o", "r", "e", "d", ".">>

\* "Line one. Line two."
ExampleDescription ==
    <<"L", "i", "n", "e", " ", "o", "n", "e", ".", " ",
      "L", "i", "n", "e", " ", "t", "w", "o", ".">>

\* "## a\n\n#  \na": a level-two heading, then a heading of blanks
LevelTwoDoc == <<"#", "#", " ", "a", "\n", "\n", "#", " ", " ", "\n", "a">>

\* Every text of at most MaxLen characters, and the longer examples.
Contents ==
    UNION {[1..k -> Alphabet] : k \in 0..MaxLen} \cup {ExampleDoc, LevelTwoDoc}

\* Folder names used as the fallback title; none is a text over Alphabet.
Fallbacks == {<<"f">>, <<"g", "2">>}

InitParse ==
    /\ pc = "input"
    /\ content \in Contents
    /\ fallback \in Fallbacks
    /\ info = NoInfo
    /\ entries = <<>>
    /\ html = <<>>
    /\ rootKind = "missing"
    /\ children = NoChildren
    /\ items = <<>>
    /\ reads = <<>>
    /\ writes = 0
    /\ runs = 0
    /\ before = Absent
    /\ prev = NoRun

\* info = parse_markdown(md_file)
Parse ==
    /\ pc = "input"
    /\ info' = parse_markdown(content, fallback)
    /\ pc' = "parsed"
    /\ UNCHANGED <<content, fallback, entries, html>>
    /\ UNCHANGED fsVars

NextParse == Parse

SpecParse == InitParse /\ [][NextParse]_vars

(***************************************************************************)
(* Properties of parse_markdown (checked under SpecParse)                  *)
(***************************************************************************)
Min(S) == CHOOSE x \in S : \A y \in S : x <= y
Max(S) == CHOOSE x \in S : \A y \in S : x >= y

\* The lines of the text being parsed, and those whose trimmed form starts
\* with "#".
Lines == Split(content)
HeadingLines == {i \in 1..Len(Lines) : StartsWithHash(Strip(Lines[i]))}

\* Where the title text can start for a "#" at index p: after the "#" comes
\* white space only (blanks or line breaks) up to q, and q is no line break.
TextStarts(s, p) ==
    {q \in (p + 2)..Len(s) :
        /\ \A j \in (p + 1)..(q - 1) : IsSpace(s[j])
        /\ s[q] # "\n"}

\* The line starts holding a single "#" followed by white space and text.
TitleMarks(s) ==
    {p \in 1..Len(s) : AtLineStart(s, p) /\ s[p] = "#" /\ TextStarts(s, p) # {}}

\* The rest of the line from index q on.
RestOfLine(s, q) ==
    SubSeq(s, q, Max({e \in q..Len(s) : \A j \in q..e : s[j] # "\n"}))

LeadingHashes(l) == Max({n \in 0..Len(l) : \A j \in 1..n : l[j] = "#"})

\* Line l is one or more "#", then one or more spaces, then text.
IsHeadingLine(l) ==
    LET n == LeadingHashes(l)
    IN  n >= 1 /\ Len(l) > n + 1 /\ l[n + 1] = " "

RECURSIVE Offset(_, _)
\* Where piece k starts, less one, in pieces joined by single spaces.
Offset(pieces, k) ==
    IF k = 1 THEN 0 ELSE Offset(pieces, k - 1) + Len(pieces[k - 1]) + 1

\* Text d is the pieces in order with exactly one space between neighbours.
IsSpaceJoined(d, pieces) ==
    LET n == Len(pieces)
    IN  IF n = 0 THEN d = <<>>
        ELSE /\ Len(d) = Offset(pieces, n) + Len(pieces[n])
             /\ \A k \in 1..n :
                   /\ SubSeq(d, Offset(pieces, k) + 1,
                             Offset(pieces, k) + Len(pieces[k])) = pieces[k]
                   /\ k > 1 => d[Offset(pieces, k)] = " "

\* The paragraph the description is made of: the trimmed lines of the
\* longest run of non-blank, non-heading lines that starts at the first
\* non-blank line after the first heading line; none if there is no
\* heading, no non-blank line after it, or that line is a heading itself.
Paragraph ==
    IF HeadingLines = {} THEN <<>>
    ELSE LET h  == Min(HeadingLines)
             NB == {i \in (h + 1)..Len(Lines) : Strip(Lines[i]) # <<>>}
         IN  IF NB = {} \/ Min(NB) \in HeadingLines THEN <<>>
             ELSE LET first == Min(NB)
                      last  == Max({j \in first..Len(Lines) :
                                      \A t \in first..j :
                                         /\ t \notin HeadingLines
                                         /\ Strip(Lines[t]) # <<>>})
                  IN  [k \in 1..(last - first + 1) |-> Strip(Lines[first + k - 1])]

\* C7: the description is what the line scan collects: nothing before the
\* first heading line; after it blank lines are skipped while nothing is
\* collected, each non-blank non-heading line is collected trimmed, and the
\* scan stops at the first blank line met with something collected or at the
\* next heading line; the description is the collected lines joined by single
\* spaces, and "" when nothing was collected.
C7_DescriptionIsFirstParagraph ==
    pc = "parsed" =>
        /\ IsSpaceJoined(info.description, Paragraph)
        /\ Paragraph = <<>> => info.description = <<>>
        /\ content = ExampleDoc => info.description = ExampleDescription

\* The example text is parsed: its second paragraph is left out.
C7_Witness ==
    /\ pc = "parsed"
    /\ content = ExampleDoc
    /\ info.description = ExampleDescription

\* The text has a second heading line and only blank lines between the
\* first and the second: the buffer is empty when the second one is met.
SecondHeadingOnEmptyBuffer ==
    /\ Cardinality(HeadingLines) >= 2
    /\ LET h1 == Min(HeadingLines)
           h2 == Min(HeadingLines \ {h1})
       IN  \A i \in (h1 + 1)..(h2 - 1) : Strip(Lines[i]) = <<>>

\* C9 (amended): a later heading line met after the first heading stops the
\* scan also while the description buffer is still empty: no text after it
\* becomes the description, which is "".
C9_LaterHeadingStopsScan ==
    (pc = "parsed" /\ SecondHeadingOnEmptyBuffer) => info.description = <<>>

\* "#\n#\na": a heading, a second heading at once, then a text line.
C9_Witness ==
    /\ pc = "parsed"
    /\ content = <<"#", "\n", "#", "\n", "a">>
    /\ info.description = <<>>

\* C9 (as claimed): a later heading met with an empty buffer restarts the
\* capture, so that a heading followed at once by a second heading and then
\* a text line yields that text line as the description.
C9_LaterHeadingRestartsCapture ==
    (/\ pc = "parsed"
     /\ SecondHeadingOnEmptyBuffer
     /\ LET h2 == Min(HeadingLines \ {Min(HeadingLines)})
        IN  /\ h2 < Len(Lines)
            /\ Strip(Lines[h2 + 1]) # <<>>
            /\ (h2 + 1) \notin HeadingLines)
    => LET h2 == Min(HeadingLines \ {Min(HeadingLines)})
           d  == info.description
           t  == Strip(Lines[h2 + 1])
       IN  Len(d) >= Len(t) /\ SubSeq(d, 1, Len(t)) = t

(***************************************************************************)
(* SpecHtml: generate_html applied to every list of a bounded set.         *)
(***************************************************************************)
\* The entries the lists are made of. A field can hold text that reads as
\* markup: it is put into the page as a value, like any other.
EntryPool ==
    {[folder |-> f, title |-> t, description |-> d] :
        f \in {NameA, NameB},
        t \in {<<"T">>, <<"<li class=\"entry\">">>},
        d \in {<<>>, <<"d">>, <<"<li class=\"empty\">No content yet.</li>">>}}

InitHtml ==
    /\ pc = "render"
    /\ entries \in UNION {[1..k -> EntryPool] : k \in 0..MaxEntries}
    /\ html = <<>>
    /\ content = <<>>
    /\ fallback = <<>>
    /\ info = NoInfo
    /\ rootKind = "missing"
    /\ children = NoChildren
    /\ items = <<>>
    /\ reads = <<>>
    /\ writes = 0
    /\ runs = 0
    /\ before = Absent
    /\ prev = NoRun

NextHtml == Render

SpecHtml == InitHtml /\ [][NextHtml]_vars

(***************************************************************************)
(* Properties of generate_html (checked under SpecHtml)                    *)
(***************************************************************************)
\* Where the template's piece x stands in the page.
Places(x) == {k \in 1..Len(html) : html[k] = x}

\* The i-th smallest element of P.
Nth(P, i) == CHOOSE k \in P : Cardinality({j \in P : j < k}) = i - 1

\* C8: the page holds exactly one <li class="entry"> item per entry, in the
\* order of the list; the i-th links to the i-th entry's folder/index.html
\* and shows its title in an <h2>, and holds a <p class="description">
\* paragraph, with the description, if and only if the description is not
\* empty. The placeholder item stands in the page if and only if the list
\* is empty, and then the page holds no entry item.
C8_OneItemPerEntry ==
    pc = "write" =>
        /\ Cardinality(Places(LiEntry)) = Len(entries)
        /\ \A i \in 1..Len(entries) :
              LET k == Nth(Places(LiEntry), i)
                  e == entries[i]
              IN  /\ html[k + 2] = AOpen
                  /\ html[k + 3] = Val(e.folder)
                  /\ html[k + 4] = HrefEnd
                  /\ html[k + 6] = H2Open
                  /\ html[k + 7] = Val(e.title)
                  /\ html[k + 8] = H2Close
                  /\ (html[k + 10] = POpen) <=> (e.description # <<>>)
                  /\ e.description # <<>> =>
                        html[k + 11] = Val(e.description) /\ html[k + 12] = PClose
        /\ Cardinality(Places(POpen)) =
              Cardinality({i \in 1..Len(entries) : entries[i].description # <<>>})
        /\ Cardinality(Places(Placeholder)) = IF entries = <<>> THEN 1 ELSE 0

\* A page of two entries was rendered, the first with a description and
\* the second without.
C8_Witness ==
    /\ pc = "write"
    /\ Len(entries) = 2
    /\ entries[1].description # <<>>
    /\ entries[2].description = <<>>
    /\ Cardinality(Places(POpen)) = 1
    /\ Places(Placeholder) = {}

(***************************************************************************)
(* Properties of get_subfolders and main (checked under Spec)              *)
(***************************************************************************)
\* The child is one get_subfolders makes an entry of.
Qualifies(n) == children[n].kind = "dir" /\ n[1] # "."

\* The summary file of highest priority there is in folder n, or "".
FirstPresent(n) ==
    IF children[n].files["README.md"].st # "absent" THEN "README.md"
    ELSE IF children[n].files["description.md"].st # "absent" THEN "description.md"
    ELSE IF children[n].files["index.md"].st # "absent" THEN "index.md"
    ELSE ""

\* The summary files the scan selects.
Selected ==
    {<<n, FirstPresent(n)>> : n \in {m \in Names : Qualifies(m) /\ FirstPresent(m) # ""}}

ReadSet == {reads[i] : i \in 1..Len(reads)}

\* get_subfolders has returned in this run.
Returned == pc \in {"render", "write", "done"} \/ (pc = "error" /\ html # <<>>)

\* C1: with site/ missing, or no directory, a run is no error.
C1_MissingRootIsNoError == rootKind # "dir" => pc # "error"

\* C2: a run writes site/index.html at most once, and only after every
\* summary file the scan selects was read and parsed; where a read fails
\* the run ends in error with site/index.html as it was before the run.
C2_WriteOnceAfterAllReads ==
    pc # "idle" =>
        /\ writes <= 1
        /\ writes = 1 =>
              /\ pc = "done"
              /\ items = <<>>
              /\ ReadSet = Selected
              /\ \A r \in Selected : children[r[1]].files[r[2]].st = "text"
              /\ children[IndexHtml] = File(html)
        /\ writes = 0 => children[IndexHtml] = before
        /\ (\E r \in ReadSet : children[r[1]].files[r[2]].st = "unreadable") =>
              pc = "error" /\ writes = 0 /\ children[IndexHtml] = before

\* A run read one summary file, failed on the next, and left the page
\* that was there.
C2_Witness ==
    /\ pc = "error"
    /\ Len(reads) = 2
    /\ children[reads[1][1]].files[reads[1][2]].st = "text"
    /\ children[reads[2][1]].files[reads[2][2]].st = "unreadable"
    /\ children[IndexHtml] = File(StalePage)

\* C3: a run that follows a run that wrote its page, on a tree nothing else
\* changed, makes the same entries and writes the same page.
C3_SecondRunSamePage ==
    (prev.status = "done" /\ pc = "done") =>
        /\ entries = prev.entries
        /\ html = prev.page
        /\ children[IndexHtml] = File(prev.page)

\* The second run ended, with entries, on a tree holding the first run's page.
C3_Witness ==
    /\ prev.status = "done"
    /\ pc = "done"
    /\ runs = 2
    /\ Len(entries) = 2
    /\ before = File(prev.page)

\* C4: every entry has a title that is not the empty string.
C4_EntryTitleNonEmpty ==
    \A i \in 1..Len(entries) : entries[i].title # <<>>

\* C5: for a root that is a directory, the folder fields get_subfolders
\* returns are, strictly ascending, the names of the children that are
\* directories and do not start with ".".
C5_FoldersSortedQualifying ==
    (Returned /\ rootKind = "dir") =>
        /\ \A i \in 1..(Len(entries) - 1) :
              LexLess(entries[i].folder, entries[i + 1].folder)
        /\ {entries[i].folder : i \in 1..Len(entries)} = {n \in Names : Qualifies(n)}

\* The scan returned three folders of a root that also holds a file and a
\* hidden directory.
C5_Witness ==
    /\ pc = "render"
    /\ children[HiddenName].kind = "dir"
    /\ children[NameA].kind = "file"
    /\ Len(entries) = 3
    /\ entries[1].folder = NameAB
    /\ entries[2].folder = NameB
    /\ entries[3].folder = IndexHtml

\* C10: of each folder the scan reads at most one file, the first there is
\* of README.md, description.md, index.md; an entry's title and description
\* are those parsed from it, with the folder's name as fallback title; with
\* none of the three, no file of the folder is read and the entry is the
\* folder's name and "".
C10_FirstPresentSummaryOnly ==
    /\ \A i \in 1..Len(reads) : reads[i][2] = FirstPresent(reads[i][1])
    /\ \A i, j \in 1..Len(reads) : reads[i][1] = reads[j][1] => i = j
    /\ \A k \in 1..Len(entries) :
          LET n == entries[k].folder
              c == FirstPresent(n)
          IN  IF c = ""
              THEN /\ \A r \in ReadSet : r[1] # n
                   /\ entries[k].title = n
                   /\ entries[k].description = <<>>
              ELSE /\ <<n, c>> \in ReadSet
                   /\ entries[k].title =
                         parse_markdown(children[n].files[c].text, n).title
                   /\ entries[k].description =
                         parse_markdown(children[n].files[c].text, n).description

\* Folder "a" holds description.md and index.md but no README.md, folder
\* "b" none of the three: description.md of "a" was read, and nothing else.
C10_Witness ==
    /\ pc = "render"
    /\ children[NameA].kind = "dir"
    /\ children[NameA].files["README.md"].st = "absent"
    /\ children[NameA].files["description.md"].st = "text"
    /\ children[NameA].files["index.md"].st = "text"
    /\ children[NameB].kind = "dir"
    /\ FirstPresent(NameB) = ""
    /\ reads = <<<<NameA, "description.md">>>>
    /\ Len(entries) = 2
    /\ entries[2].title = NameB

====
